---- MODULE Spec2Model ----
(***************************************************************************)
(* A model of MCPLaunchPad's authentication core:                          *)
(*   - the bearer gateway  (mcpserver: bearerTokenHTTPMiddleware.ServeHTTP) *)
(*   - the OAuth2 provider (oauth2: GoogleOAuth2Provider) and its device    *)
(*     flow polling loop   (DeviceFlowWithPolling).                         *)
(*                                                                         *)
(* Text is a sequence of atoms.  An atom is a TLA+ string standing for an   *)
(* indivisible piece of text: a single character for data supplied by a     *)
(* client (headers, tokens), a whole literal for text fixed by the code or  *)
(* a whole word for text fixed by the protocol.  strings.HasPrefix,         *)
(* strings.Contains, strings.TrimSpace act on these sequences.              *)
(***************************************************************************)
EXTENDS Integers, Sequences, FiniteSets, TLC

VARIABLES
    \* ---- bearer gateway ------------------------------------------------
    validator,      \* the configured mcptypes.BearerTokenValidator
    gpc,            \* per request: position inside ServeHTTP
    authHeader,     \* per request: the Authorization header value ("" = none)
    token,          \* per request: the token handed to the validator
    validatorCalls, \* per request: sequence of tokens the validator was called with
    outcome,        \* per request: sequence of (contextData, err) the validator returned
    handlerCalls,   \* per request: sequence of contexts the downstream handler got
    status,         \* per request: HTTP status written by the gateway (0 = none)
    body,           \* per request: HTTP body written by the gateway
    log,            \* set of logged records [req, level, msg]
    providerCalls,  \* per request: the provider calls of its validator, with their answers
    \* ---- device flow (one invocation of DeviceFlowWithPolling) ----------
    fpc,            \* position: "start", "getcode", "select", "exchange", "done", "panic"
    interval,       \* the interval argument
    ctxDone,        \* the caller's context is cancelled
    now,            \* time since the ticker was created
    deviceResp,     \* the DeviceCodeResponse of GetDeviceCode
    period,         \* the ticker's current period
    nextTick,       \* when the ticker fires next
    tickC,          \* a tick is waiting in ticker.C
    deadline,       \* when the time.After channel fires
    timeoutC,       \* the timeout channel has fired
    exCtxDone,      \* ctx was already done when the exchange in flight began
    fres,           \* what DeviceFlowWithPolling returned
    hist,           \* history of the invocation (see HistInit)
    \* ---- a client calling the provider's methods -------------------------
    held,           \* the TokenResponse the client holds
    pcall,          \* the last provider call: method, argument, answer, result
    \* ---- MCPServer.Start / Stop ------------------------------------------
    srv,            \* the server, its goroutine and its listener (see ServerInit)
    \* ---- tool-handler middleware -----------------------------------------
    toolCalls       \* the tool calls handled so far, in order

gvars == <<validator, gpc, authHeader, token, validatorCalls, outcome, handlerCalls,
           status, body, log, providerCalls>>

fvars == <<fpc, interval, ctxDone, now, deviceResp, period, nextTick, tickC,
           deadline, timeoutC, exCtxDone, fres, hist>>

pvars == <<held, pcall>>

svars == <<srv>>

tvars == <<toolCalls>>

vars == <<gvars, fvars, pvars, svars, tvars>>

\* What the steps of one component leave alone.
notGateway == <<fvars, pvars, svars, tvars>>
notFlow == <<gvars, pvars, svars, tvars>>
notProvider == <<gvars, fvars, svars, tvars>>
notServer == <<gvars, fvars, pvars, tvars>>
notTool == <<gvars, fvars, pvars, svars>>

(***************************************************************************)
(* Text helpers (Go's strings package)                                     *)
(***************************************************************************)

\* strings.HasPrefix(s, prefix)
HasPrefix(s, prefix) ==
    /\ Len(prefix) <= Len(s)
    /\ SubSeq(s, 1, Len(prefix)) = prefix

\* strings.TrimPrefix(s, prefix)
TrimPrefix(s, prefix) ==
    IF HasPrefix(s, prefix) THEN SubSeq(s, Len(prefix) + 1, Len(s)) ELSE s

\* unicode.IsSpace on the characters the model draws
WhiteSpace == {" ", "\t", "\n", "\r"}

\* strings.TrimSpace(s): drop leading and trailing white space
TrimSpace(s) ==
    LET idx == {i \in 1..Len(s) : s[i] \notin WhiteSpace}
    IN  IF idx = {} THEN <<>>
        ELSE LET lo == CHOOSE i \in idx : \A j \in idx : i <= j
                 hi == CHOOSE i \in idx : \A j \in idx : j <= i
             IN  SubSeq(s, lo, hi)

\* strings.Contains(s, sub)
Contains(s, sub) ==
    \E i \in 0..(Len(s) - Len(sub)) : SubSeq(s, i + 1, i + Len(sub)) = sub

(***************************************************************************)
(* Data the model draws                                                    *)
(***************************************************************************)

\* Longest run of white space placed around a token in a drawn header.
MaxPad == 1

Bearer == <<"B", "e", "a", "r", "e", "r">>
good   == <<"g", "o", "o", "d">>
bad    == <<"b", "a", "d">>

\* Token texts a client may send (the last one has white space inside).
TokenTexts == {<<>>, good, bad, <<"g", " ", "d">>}

\* Runs of white space of length 0..MaxPad.
Pads == UNION {[1..n -> {" ", "\t"}] : n \in 0..MaxPad}

\* What may stand in front of the token in an Authorization header.
Schemes == {<<>>, Bearer, Bearer \o <<" ">>,
            <<"b", "e", "a", "r", "e", "r", " ">>,
            <<"T", "o", "k", "e", "n", " ">>}

\* Authorization header values; <<>> is the absent header
\* (http.Header.Get returns "" for it).
Headers == {s \o l \o t \o r : s \in Schemes, l \in Pads, t \in TokenTexts, r \in Pads}

\* The requests followed: GatewaySpec serves the first alone,
\* ConcurrentSpec serves all of them at once.
ReqIds == {1, 2}
Single == {1}

\* The error value nil, and the nil map.
NoErr  == <<>>
NilMap == <<>>

(***************************************************************************)
(* Validators                                                              *)
(***************************************************************************)

\* createBearerTokenValidator(expectedToken)(token)
createBearerTokenValidator(expectedToken, tok) ==
    IF tok # expectedToken
    THEN [ctx |-> NilMap, err |-> <<"invalid token">>]
    ELSE [ctx |-> [authenticated |-> <<"true">>, token |-> tok], err |-> NoErr]

\* url.QueryEscape on the characters the model draws: letters are kept,
\* a space becomes "+", any other byte is %XX.
RECURSIVE QueryEscape(_)
QueryEscape(s) ==
    IF s = <<>> THEN <<>>
    ELSE LET c == Head(s)
         IN  (CASE c = " "  -> <<"+">>
                [] c = "\t" -> <<"%", "0", "9">>
                [] c = "\n" -> <<"%", "0", "A">>
                [] c = "\r" -> <<"%", "0", "D">>
                [] OTHER    -> <<c>>) \o QueryEscape(Tail(s))

\* Answers of the token-info endpoint: the transport failed (net = FALSE,
\* http.Client.Do returned an error) or an HTTP status came back.
TokenInfoResponses ==
    {[net |-> FALSE, status |-> 0], [net |-> TRUE, status |-> 200],
     [net |-> TRUE, status |-> 204], [net |-> TRUE, status |-> 400]}

\* A check that takes every 2xx status for "valid"
ValidateTokenAny2xx(accessToken, resp) ==
    IF ~resp.net
    THEN [valid |-> FALSE,
          err   |-> <<"failed to send request: ", "Get \"",
                      "https://oauth2.googleapis.com/tokeninfo?access_token=">>
                    \o QueryEscape(accessToken)
                    \o <<"\": ", "dial tcp: connection refused">>]
    ELSE IF resp.status \in 200..299
    THEN [valid |-> TRUE, err |-> NoErr]
    ELSE [valid |-> FALSE, err |-> NoErr]

\* GoogleOAuth2Provider.ValidateToken(ctx, accessToken) on the answer resp.
\* A transport failure is a *url.Error, whose text is
\*   Get "<the request URL>": <cause>
\* and the request URL carries the escaped token as a query parameter.
ValidateToken(accessToken, resp) ==
    IF ~resp.net
    THEN [valid |-> FALSE,
          err   |-> <<"failed to send request: ", "Get \"",
                      "https://oauth2.googleapis.com/tokeninfo?access_token=">>
                    \o QueryEscape(accessToken)
                    \o <<"\": ", "dial tcp: connection refused">>]
    ELSE IF resp.status = 200
    THEN [valid |-> TRUE, err |-> NoErr]
    ELSE [valid |-> FALSE, err |-> NoErr]

\* Answers of the userinfo endpoint: transport failure, a status, and for
\* status 200 a body that is a JSON object of claims or is not JSON.
UserInfoResponses ==
    {[net |-> FALSE, status |-> 0,   json |-> FALSE, claims |-> NilMap],
     [net |-> TRUE,  status |-> 401, json |-> FALSE, claims |-> NilMap],
     [net |-> TRUE,  status |-> 200, json |-> FALSE, claims |-> NilMap],
     [net |-> TRUE,  status |-> 200, json |-> TRUE,
      claims |-> [email |-> <<"u@example.com">>, id |-> <<"42">>]]}

\* GoogleOAuth2Provider.GetUserInfo(ctx, accessToken) on the answer resp.
GetUserInfo(accessToken, resp) ==
    IF ~resp.net
    THEN [info |-> NilMap,
          err  |-> <<"failed to send request: ", "Get \"",
                     "https://www.googleapis.com/oauth2/v2/userinfo",
                     "\": ", "dial tcp: connection refused">>]
    ELSE IF resp.status # 200
    THEN [info |-> NilMap, err |-> <<"failed to get user info: ", "status">>]
    ELSE IF ~resp.json
    THEN [info |-> NilMap, err |-> <<"failed to parse user info: ", "json">>]
    ELSE [info |-> resp.claims, err |-> NoErr]

\* A validator that looks at ValidateToken's error only, not at its verdict
CreateBearerTokenValidatorAnyVerdict(tok, vt, ui) ==
    LET v == ValidateToken(tok, vt)
    IN  IF v.err # NoErr
        THEN [ctx |-> NilMap, err |-> <<"failed to validate token: ">> \o v.err]
        ELSE LET u == GetUserInfo(tok, ui)
             IN  IF u.err # NoErr
                 THEN [ctx |-> [authenticated |-> <<"true">>], err |-> NoErr]
                 ELSE [ctx |-> u.info, err |-> NoErr]

\* The function CreateBearerTokenValidator returns, applied to tok, when the
\* two endpoints answer vt and ui.
CreateBearerTokenValidator(tok, vt, ui) ==
    LET v == ValidateToken(tok, vt)
    IN  IF v.err # NoErr
        THEN [ctx |-> NilMap, err |-> <<"failed to validate token: ">> \o v.err]
        ELSE IF ~v.valid
        THEN [ctx |-> NilMap, err |-> <<"invalid token">>]
        ELSE LET u == GetUserInfo(tok, ui)
             IN  IF u.err # NoErr
                 THEN [ctx |-> [authenticated |-> <<"true">>], err |-> NoErr]
                 ELSE [ctx |-> u.info, err |-> NoErr]

\* The provider calls that function makes, in order, with their answers:
\* GetUserInfo is reached only after ValidateToken returned (true, nil).
ProviderCalls(tok, vt, ui) ==
    LET v == ValidateToken(tok, vt)
    IN  IF v.err # NoErr \/ ~v.valid
        THEN <<[fn |-> "ValidateToken", answer |-> vt]>>
        ELSE <<[fn |-> "ValidateToken", answer |-> vt],
               [fn |-> "GetUserInfo", answer |-> ui]>>

\* The validators a server is configured with: the example's
\* expected-token validator (for each expected token, the empty one
\* included) and the provider-derived one.
Validators ==
    {[kind |-> "expected", expectedToken |-> t] : t \in {<<>>, good}}
    \cup {[kind |-> "google", expectedToken |-> <<>>]}

\* m.validator(token), with the endpoints' answers for a provider-derived one.
CallValidator(v, tok, vt, ui) ==
    IF v.kind = "expected"
    THEN createBearerTokenValidator(v.expectedToken, tok)
    ELSE CreateBearerTokenValidator(tok, vt, ui)

(***************************************************************************)
(* Bearer gateway: bearerTokenHTTPMiddleware.ServeHTTP                     *)
(***************************************************************************)

\* const prefix = "Bearer "
prefix == Bearer \o <<" ">>

\* HeaderCheck without the test for the prefix.
HeaderCheckNoPrefix(h) ==
    IF h = <<>> THEN "missing" ELSE "validate"

\* The header checks at the top of ServeHTTP: what the gateway does with the
\* Authorization value h before any validator is involved.
HeaderCheck(h) ==
    IF h = <<>> THEN "missing"
    ELSE IF ~HasPrefix(h, prefix) THEN "malformed"
    ELSE "validate"

\* ExtractToken without strings.TrimSpace.
ExtractTokenNoTrim(h) == TrimPrefix(h, prefix)

\* token := strings.TrimSpace(strings.TrimPrefix(authHeader, prefix))
ExtractToken(h) == TrimSpace(TrimPrefix(h, prefix))

\* Rejects with the test of err inverted.
RejectsInverted(out) == out.err = NoErr

\* The branch after m.validator(token) returned out: TRUE when the request
\* is answered 401 and the downstream handler is skipped.
Rejects(out) == out.err # NoErr

\* A context is the chain of its context.WithValue layers, innermost first.
\* r.Context() of an arriving request holds no value under a string key.
Background == <<>>

\* context.WithValue(ctx, key, value)
WithValue(ctx, key, value) == Append(ctx, <<key, value>>)

\* ctx.Value(key): the value of the outermost layer for key, as a set that
\* is empty when the chain has no such layer (nil).
Value(ctx, key) ==
    LET at == {i \in 1..Len(ctx) : ctx[i][1] = key}
    IN  IF at = {} THEN {}
        ELSE {ctx[CHOOSE i \in at : \A k \in at : k <= i][2]}

\* The orders in which a range loop may visit the keys of the map m.
Orders(m) ==
    {o \in [1..Cardinality(DOMAIN m) -> DOMAIN m] :
        \A i, k \in DOMAIN o : o[i] = o[k] => i = k}

\* A loop whose results are thrown away: the handler gets the request's
\* own context.
EnrichedContextDiscarded(ctx, contextData, order) == ctx

\* ctx := r.Context(); for key, value := range contextData
\* { ctx = context.WithValue(ctx, key, value) }, the keys visited in order.
RECURSIVE EnrichedContext(_, _, _)
EnrichedContext(ctx, contextData, order) ==
    IF order = <<>> THEN ctx
    ELSE EnrichedContext(WithValue(ctx, Head(order), contextData[Head(order)]),
                         contextData, Tail(order))

\* m.logger.Warning / Warningf
Warning(r, msg) == [req |-> r, level |-> "warning", msg |-> msg]

\* A gateway that keeps the extracted token in a field of the middleware,
\* shared by all requests
ServeHTTPBeginSharedToken(r, h) ==
    /\ gpc[r] = "idle"
    /\ authHeader' = [authHeader EXCEPT ![r] = h]
    /\ CASE HeaderCheck(h) = "missing" ->
              /\ log' = log \cup {Warning(r, <<"Missing Authorization header">>)}
              /\ status' = [status EXCEPT ![r] = 401]
              /\ body' = [body EXCEPT ![r] = <<"Authorization required">>]
              /\ gpc' = [gpc EXCEPT ![r] = "done"]
              /\ UNCHANGED <<token, validatorCalls>>
         [] HeaderCheck(h) = "malformed" ->
              /\ log' = log \cup {Warning(r, <<"Invalid Authorization format">>)}
              /\ status' = [status EXCEPT ![r] = 401]
              /\ body' = [body EXCEPT ![r] =
                            <<"Invalid Authorization format - expected Bearer token">>]
              /\ gpc' = [gpc EXCEPT ![r] = "done"]
              /\ UNCHANGED <<token, validatorCalls>>
         [] OTHER ->
              /\ token' = [q \in ReqIds |-> ExtractToken(h)]
              /\ validatorCalls' =
                   [validatorCalls EXCEPT ![r] = Append(@, ExtractToken(h))]
              /\ gpc' = [gpc EXCEPT ![r] = "validating"]
              /\ UNCHANGED <<status, body, log>>
    /\ UNCHANGED <<validator, outcome, handlerCalls, providerCalls>>
    /\ UNCHANGED notGateway

\* ServeHTTP from its entry to the call of m.validator: request r arrives
\* with Authorization value h.
ServeHTTPBegin(r, h) ==
    /\ gpc[r] = "idle"
    /\ authHeader' = [authHeader EXCEPT ![r] = h]
    /\ CASE HeaderCheck(h) = "missing" ->
              /\ log' = log \cup {Warning(r, <<"Missing Authorization header">>)}
              /\ status' = [status EXCEPT ![r] = 401]
              /\ body' = [body EXCEPT ![r] = <<"Authorization required">>]
              /\ gpc' = [gpc EXCEPT ![r] = "done"]
              /\ UNCHANGED <<token, validatorCalls>>
         [] HeaderCheck(h) = "malformed" ->
              /\ log' = log \cup {Warning(r, <<"Invalid Authorization format">>)}
              /\ status' = [status EXCEPT ![r] = 401]
              /\ body' = [body EXCEPT ![r] =
                            <<"Invalid Authorization format - expected Bearer token">>]
              /\ gpc' = [gpc EXCEPT ![r] = "done"]
              /\ UNCHANGED <<token, validatorCalls>>
         [] OTHER ->
              /\ token' = [token EXCEPT ![r] = ExtractToken(h)]
              /\ validatorCalls' =
                   [validatorCalls EXCEPT ![r] = Append(@, ExtractToken(h))]
              /\ gpc' = [gpc EXCEPT ![r] = "validating"]
              /\ UNCHANGED <<status, body, log>>
    /\ UNCHANGED <<validator, outcome, handlerCalls, providerCalls>>
    /\ UNCHANGED notGateway

\* A gateway that asks the validator again after a rejection
ServeHTTPFinishRetry(r, vt, ui) ==
    /\ gpc[r] = "validating"
    /\ outcome' = [outcome EXCEPT ![r] =
                     Append(@, CallValidator(validator, token[r], vt, ui))]
    /\ providerCalls' = [providerCalls EXCEPT ![r] =
                           IF validator.kind = "expected" THEN @
                           ELSE @ \o ProviderCalls(token[r], vt, ui)]
    /\ LET out == CallValidator(validator, token[r], vt, ui)
       IN  IF Rejects(out)
           THEN /\ validatorCalls' = [validatorCalls EXCEPT ![r] = Append(@, token[r])]
                /\ UNCHANGED <<gpc, log, status, body, handlerCalls>>
           ELSE /\ \E order \in Orders(out.ctx) :
                     handlerCalls' =
                       [handlerCalls EXCEPT ![r] =
                          Append(@, EnrichedContext(Background, out.ctx, order))]
                /\ gpc' = [gpc EXCEPT ![r] = "done"]
                /\ UNCHANGED <<log, status, body, validatorCalls>>
    /\ UNCHANGED <<validator, authHeader, token>>
    /\ UNCHANGED notGateway

\* ServeHTTP from the return of m.validator to its end: the validator
\* answers (for a provider-derived validator, after the endpoints answered
\* vt and ui), and the request is rejected or handed to m.handler.
ServeHTTPFinish(r, vt, ui) ==
    /\ gpc[r] = "validating"
    /\ outcome' = [outcome EXCEPT ![r] =
                     Append(@, CallValidator(validator, token[r], vt, ui))]
    /\ providerCalls' = [providerCalls EXCEPT ![r] =
                           IF validator.kind = "expected" THEN @
                           ELSE @ \o ProviderCalls(token[r], vt, ui)]
    /\ LET out == CallValidator(validator, token[r], vt, ui)
       IN  IF Rejects(out)
           THEN /\ log' = log \cup
                      {Warning(r, <<"Bearer token validation failed: ">> \o out.err)}
                /\ status' = [status EXCEPT ![r] = 401]
                /\ body' = [body EXCEPT ![r] = <<"Invalid token">>]
                /\ UNCHANGED handlerCalls
           ELSE /\ \E order \in Orders(out.ctx) :
                     handlerCalls' =
                       [handlerCalls EXCEPT ![r] =
                          Append(@, EnrichedContext(Background, out.ctx, order))]
                /\ UNCHANGED <<log, status, body>>
    /\ gpc' = [gpc EXCEPT ![r] = "done"]
    /\ UNCHANGED <<validator, authHeader, token, validatorCalls>>
    /\ UNCHANGED notGateway

\* A server wrapped by wrapHTTPHandlerWithAuth with some validator, and the
\* requests not yet arrived.
GatewayInit ==
    /\ validator \in Validators
    /\ gpc = [r \in ReqIds |-> "idle"]
    /\ authHeader = [r \in ReqIds |-> <<>>]
    /\ token = [r \in ReqIds |-> <<>>]
    /\ validatorCalls = [r \in ReqIds |-> <<>>]
    /\ outcome = [r \in ReqIds |-> <<>>]
    /\ handlerCalls = [r \in ReqIds |-> <<>>]
    /\ status = [r \in ReqIds |-> 0]
    /\ body = [r \in ReqIds |-> <<>>]
    /\ log = {}
    /\ providerCalls = [r \in ReqIds |-> <<>>]

Arrive == \E r \in Single, h \in Headers : ServeHTTPBegin(r, h)

Validated ==
    \E r \in ReqIds, vt \in TokenInfoResponses, ui \in UserInfoResponses :
        ServeHTTPFinish(r, vt, ui)

GatewayNext == Arrive \/ Validated

\* The Authorization values of requests served at the same time.
ConcurrentHeaders ==
    {<<>>, Bearer, prefix \o good, prefix \o bad, prefix \o <<" ">> \o good}

\* Any request arrives, whatever the others are doing: net/http runs
\* ServeHTTP in one goroutine per connection.
ArriveConcurrent ==
    \E r \in ReqIds, h \in ConcurrentHeaders : ServeHTTPBegin(r, h)

ConcurrentNext == ArriveConcurrent \/ Validated

(***************************************************************************)
(* OAuth2 provider: device code and token exchange                          *)
(***************************************************************************)

\* Largest interval argument drawn, largest expires_in a server answers, and
\* the time up to which the clock of a flow is followed.
MaxInterval == 2
MaxExpiresIn == 3
MaxTime == 5

\* mcptypes.DeviceCodeResponse{} and mcptypes.TokenResponse{}
ZeroDeviceResp ==
    [DeviceCode |-> <<>>, UserCode |-> <<>>, VerificationURI |-> <<>>, ExpiresIn |-> 0]
ZeroToken == [AccessToken |-> <<>>, RefreshToken |-> <<>>, ExpiresIn |-> 0]

\* Answers of the device-authorization endpoint.  A JSON answer names the
\* verification address verification_url (Google) or verification_uri (RFC 8628).
DeviceCodeResponses ==
    {[net |-> FALSE, status |-> 0, json |-> FALSE, device_code |-> <<>>,
      user_code |-> <<>>, verification_url |-> <<>>, verification_uri |-> <<>>,
      expires_in |-> 0, interval |-> 0],
     [net |-> TRUE, status |-> 400, json |-> TRUE, device_code |-> <<>>,
      user_code |-> <<>>, verification_url |-> <<>>, verification_uri |-> <<>>,
      expires_in |-> 0, interval |-> 0],
     [net |-> TRUE, status |-> 200, json |-> FALSE, device_code |-> <<>>,
      user_code |-> <<>>, verification_url |-> <<>>, verification_uri |-> <<>>,
      expires_in |-> 0, interval |-> 0]}
    \cup
    {[net |-> TRUE, status |-> 200, json |-> TRUE, device_code |-> <<"dc-1">>,
      user_code |-> <<"ABCD-EFGH">>, verification_url |-> u[1],
      verification_uri |-> u[2], expires_in |-> e, interval |-> i] :
        u \in {<<<<"https://www.google.com/device">>, <<>>>>,
               <<<<>>, <<"https://as.example/device">>>>},
        e \in 0..MaxExpiresIn, i \in {0, 1}}

\* GoogleOAuth2Provider.GetDeviceCode(ctx) on the answer resp.
GetDeviceCode(resp) ==
    IF ~resp.net
    THEN [dev |-> ZeroDeviceResp,
          err |-> <<"failed to send request: ", "Post \"",
                    "https://oauth2.googleapis.com/device/code", "\": ",
                    "transport error">>]
    ELSE IF resp.status # 200
    THEN [dev |-> ZeroDeviceResp,
          err |-> <<"device code request failed: ", "status", " - ", "body">>]
    ELSE IF ~resp.json
    THEN [dev |-> ZeroDeviceResp, err |-> <<"failed to parse response: ", "json">>]
    ELSE [dev |-> [DeviceCode      |-> resp.device_code,
                   UserCode        |-> resp.user_code,
                   VerificationURI |-> resp.verification_url,
                   ExpiresIn       |-> resp.expires_in],
          err |-> NoErr]

\* Error codes and descriptions a token endpoint answers with.
ErrorCodes ==
    {<<"authorization_pending">>, <<"slow_down">>, <<"access_denied">>,
     <<"expired_token">>, <<"invalid_grant">>}
ErrorDescriptions ==
    {<<>>, <<"The user denied access">>,
     <<"was ", "authorization_pending", " until denied">>,
     <<"too many requests, ", "slow_down">>}

\* Answers of the token endpoint to an exchange: the transport failed, or a
\* status with a body that is not JSON, a JSON error object or a JSON token
\* object (whose access_token may be missing).
ExchangeResponses ==
    {[net |-> FALSE, cause |-> <<"dial tcp: connection refused">>, status |-> 0,
      json |-> FALSE, error |-> <<>>, error_description |-> <<>>,
      access_token |-> <<>>, refresh_token |-> <<>>, expires_in |-> 0]}
    \cup
    {[net |-> TRUE, cause |-> <<>>, status |-> st, json |-> FALSE, error |-> <<>>,
      error_description |-> <<>>, access_token |-> <<>>, refresh_token |-> <<>>,
      expires_in |-> 0] : st \in {200, 500}}
    \cup
    {[net |-> TRUE, cause |-> <<>>, status |-> st, json |-> TRUE, error |-> c,
      error_description |-> d, access_token |-> <<>>, refresh_token |-> <<>>,
      expires_in |-> 0] : st \in {400, 428}, c \in ErrorCodes, d \in ErrorDescriptions}
    \cup
    {[net |-> TRUE, cause |-> <<>>, status |-> st, json |-> TRUE, error |-> <<>>,
      error_description |-> <<>>, access_token |-> a, refresh_token |-> <<"rt-1">>,
      expires_in |-> 3600] : st \in {200, 500}, a \in {<<>>, <<"at-1">>}}

\* ctx.Err() of a cancelled context
ctxErr == <<"context canceled">>

\* The answer http.Client.Do gives a request whose context is done.
CancelledResponse ==
    [net |-> FALSE, cause |-> ctxErr, status |-> 0, json |-> FALSE, error |-> <<>>,
     error_description |-> <<>>, access_token |-> <<>>, refresh_token |-> <<>>,
     expires_in |-> 0]

\* An exchange that fills the token fields from the wrong members
ExchangeDeviceCodeSwapped(resp) ==
    IF ~resp.net
    THEN [tok |-> ZeroToken,
          err |-> <<"failed to send request: ", "Post \"",
                    "https://oauth2.googleapis.com/token", "\": ">>
                  \o resp.cause]
    ELSE IF resp.json /\ resp.error # <<>>
    THEN IF resp.error = <<"authorization_pending">> \/ resp.error = <<"slow_down">>
         THEN [tok |-> ZeroToken, err |-> resp.error]
         ELSE [tok |-> ZeroToken,
               err |-> <<"token exchange failed: ">> \o resp.error \o <<" - ">>
                       \o resp.error_description]
    ELSE IF ~resp.json
    THEN [tok |-> ZeroToken, err |-> <<"failed to parse response: ", "json">>]
    ELSE [tok |-> [AccessToken  |-> resp.refresh_token,
                   RefreshToken |-> resp.access_token,
                   ExpiresIn    |-> resp.expires_in],
          err |-> NoErr]

\* An exchange that takes a body it cannot parse for "not yet authorized"
ExchangeDeviceCodeFailOpen(resp) ==
    IF ~resp.net
    THEN [tok |-> ZeroToken,
          err |-> <<"failed to send request: ", "Post \"",
                    "https://oauth2.googleapis.com/token", "\": ">>
                  \o resp.cause]
    ELSE IF ~resp.json
    THEN [tok |-> ZeroToken, err |-> <<"authorization_pending">>]
    ELSE IF resp.error # <<>>
    THEN IF resp.error = <<"authorization_pending">> \/ resp.error = <<"slow_down">>
         THEN [tok |-> ZeroToken, err |-> resp.error]
         ELSE [tok |-> ZeroToken,
               err |-> <<"token exchange failed: ">> \o resp.error \o <<" - ">>
                       \o resp.error_description]
    ELSE [tok |-> [AccessToken  |-> resp.access_token,
                   RefreshToken |-> resp.refresh_token,
                   ExpiresIn    |-> resp.expires_in],
          err |-> NoErr]

\* GoogleOAuth2Provider.ExchangeDeviceCode(ctx, deviceCode) on the answer resp.
ExchangeDeviceCode(resp) ==
    IF ~resp.net
    THEN [tok |-> ZeroToken,
          err |-> <<"failed to send request: ", "Post \"",
                    "https://oauth2.googleapis.com/token", "\": ">>
                  \o resp.cause]
    ELSE IF resp.json /\ resp.error # <<>>
    THEN IF resp.error = <<"authorization_pending">> \/ resp.error = <<"slow_down">>
         THEN [tok |-> ZeroToken, err |-> resp.error]
         ELSE [tok |-> ZeroToken,
               err |-> <<"token exchange failed: ">> \o resp.error \o <<" - ">>
                       \o resp.error_description]
    ELSE IF ~resp.json
    THEN [tok |-> ZeroToken, err |-> <<"failed to parse response: ", "json">>]
    ELSE [tok |-> [AccessToken  |-> resp.access_token,
                   RefreshToken |-> resp.refresh_token,
                   ExpiresIn    |-> resp.expires_in],
          err |-> NoErr]

(***************************************************************************)
(* Device flow: GoogleOAuth2Provider.DeviceFlowWithPolling                 *)
(*                                                                         *)
(* Time is counted in whole units from the creation of the ticker.  The     *)
(* goroutine is blocked in the select only while none of its cases is       *)
(* ready: time passes in the select only then, and passes freely while an   *)
(* exchange call is in flight.  When several cases are ready the select     *)
(* takes any one of them (Go chooses among ready cases at random).          *)
(***************************************************************************)

\* What the server answered, told from its answer and not from error text.
ServerKind(resp) ==
    IF ~resp.net THEN "transport"
    ELSE IF ~resp.json THEN "unparseable"
    ELSE IF resp.error = <<"authorization_pending">> THEN "pending"
    ELSE IF resp.error = <<"slow_down">> THEN "slow_down"
    ELSE IF resp.error # <<>> THEN "terminal"
    ELSE "success"

\* History of one invocation: calls of GetDeviceCode, exchange calls started,
\* those started after the deadline had elapsed and after the context was
\* cancelled, the kind of the last answer, the times the loop slowed down,
\* and the ticker period before and after the last time; the error and the
\* session GetDeviceCode returned and the interval its answer named, the
\* calls of time.NewTicker and the argument of the last, the ticks ticker.C
\* received, the exchange calls that returned, the device codes they were
\* given and the token fields of the last answer, the returns of the
\* function, and whether the caller has shown the code to the user.
HistInit ==
    [getCodes |-> 0, exchanges |-> 0, afterDeadline |-> 0, afterCancel |-> 0,
     lastKind |-> "none", slowDowns |-> 0, before |-> 0, after |-> 0,
     getCodeErr |-> NoErr, issued |-> ZeroDeviceResp, serverInterval |-> 0,
     tickers |-> 0, tickerArg |-> 0, ticksFired |-> 0, returned |-> 0,
     exCodes |-> {}, lastAnswer |-> ZeroToken, terminals |-> 0,
     displayed |-> FALSE]

\* A loop without the authorization_pending case
IsPendingNever(err) == FALSE

\* strings.Contains(err.Error(), "authorization_pending")
IsPending(err) == Contains(err, <<"authorization_pending">>)

\* A loop without the slow_down case
IsSlowDownNever(err) == FALSE

\* strings.Contains(err.Error(), "slow_down")
IsSlowDown(err) == Contains(err, <<"slow_down">>)

\* The argument of ticker.Reset after a slow_down: interval * 2
SlowDownPeriod(iv, cur) == iv * 2

\* DeviceFlowWithPolling(ctx, interval) is called: GetDeviceCode is in flight.
FlowStart ==
    /\ fpc = "start"
    /\ fpc' = "getcode"
    /\ hist' = [hist EXCEPT !.getCodes = @ + 1]
    /\ UNCHANGED <<interval, ctxDone, now, deviceResp, period, nextTick, tickC,
                   deadline, timeoutC, exCtxDone, fres>>
    /\ UNCHANGED notFlow

\* A flow that goes on to poll although GetDeviceCode returned an error
GetCodeReturnErrIgnored(resp) ==
    /\ fpc = "getcode"
    /\ interval > 0
    /\ LET r == GetDeviceCode(resp)
       IN  /\ fpc' = "select"
           /\ deviceResp' = r.dev
           /\ period' = interval
           /\ nextTick' = now + interval
           /\ deadline' = now + r.dev.ExpiresIn
           /\ timeoutC' = (r.dev.ExpiresIn <= 0)
           /\ hist' = [hist EXCEPT !.getCodeErr = r.err,
                                   !.issued = r.dev,
                                   !.serverInterval = resp.interval,
                                   !.tickers = @ + 1,
                                   !.tickerArg = interval]
    /\ UNCHANGED <<interval, ctxDone, now, tickC, exCtxDone, fres>>
    /\ UNCHANGED notFlow

\* GetDeviceCode returns on the answer resp; on success the ticker and the
\* timeout channel are created.  time.NewTicker panics on a non-positive
\* interval.
GetCodeReturn(resp) ==
    /\ fpc = "getcode"
    /\ LET r == GetDeviceCode(resp)
       IN  IF r.err # NoErr
           THEN /\ fpc' = "done"
                /\ fres' = [tok |-> ZeroToken, dev |-> ZeroDeviceResp, err |-> r.err]
                /\ hist' = [hist EXCEPT !.getCodeErr = r.err,
                                        !.terminals = @ + 1]
                /\ UNCHANGED <<deviceResp, period, nextTick, deadline, timeoutC>>
           ELSE IF interval <= 0
           THEN /\ fpc' = "panic"
                /\ deviceResp' = r.dev
                /\ hist' = [hist EXCEPT !.issued = r.dev,
                                        !.serverInterval = resp.interval,
                                        !.tickers = @ + 1,
                                        !.tickerArg = interval]
                /\ UNCHANGED <<fres, period, nextTick, deadline, timeoutC>>
           ELSE /\ fpc' = "select"
                /\ deviceResp' = r.dev
                /\ period' = interval
                /\ nextTick' = now + interval
                /\ deadline' = now + r.dev.ExpiresIn
                /\ timeoutC' = (r.dev.ExpiresIn <= 0)
                /\ hist' = [hist EXCEPT !.issued = r.dev,
                                        !.serverInterval = resp.interval,
                                        !.tickers = @ + 1,
                                        !.tickerArg = interval]
                /\ UNCHANGED fres
    /\ UNCHANGED <<interval, ctxDone, now, tickC, exCtxDone>>
    /\ UNCHANGED notFlow

\* Time without a timeout channel: the deadline never fires
TickNoTimeout ==
    /\ now < MaxTime
    /\ \/ fpc = "exchange"
       \/ fpc = "select" /\ ~ctxDone /\ ~timeoutC /\ ~tickC
    /\ now' = now + 1
    /\ IF now + 1 >= nextTick
       THEN /\ tickC' = TRUE
            /\ nextTick' = nextTick + period
            /\ hist' = [hist EXCEPT !.ticksFired = IF tickC THEN @ ELSE @ + 1]
       ELSE UNCHANGED <<tickC, nextTick, hist>>
    /\ UNCHANGED <<fpc, interval, ctxDone, deviceResp, period, deadline,
                   timeoutC, exCtxDone, fres>>
    /\ UNCHANGED notFlow

\* One unit of time passes: the ticker fires when its time has come (a tick
\* is dropped when one is already waiting) and so does the timeout channel.
Tick ==
    /\ now < MaxTime
    /\ \/ fpc = "exchange"
       \/ fpc = "select" /\ ~ctxDone /\ ~timeoutC /\ ~tickC
    /\ now' = now + 1
    /\ IF now + 1 >= nextTick
       THEN /\ tickC' = TRUE
            /\ nextTick' = nextTick + period
            /\ hist' = [hist EXCEPT !.ticksFired = IF tickC THEN @ ELSE @ + 1]
       ELSE UNCHANGED <<tickC, nextTick, hist>>
    /\ timeoutC' = (timeoutC \/ now + 1 >= deadline)
    /\ UNCHANGED <<fpc, interval, ctxDone, deviceResp, period, deadline,
                   exCtxDone, fres>>
    /\ UNCHANGED notFlow

\* The caller cancels ctx.
Cancel ==
    /\ fpc \in {"getcode", "select", "exchange"}
    /\ ~ctxDone
    /\ ctxDone' = TRUE
    /\ UNCHANGED <<fpc, interval, now, deviceResp, period, nextTick, tickC,
                   deadline, timeoutC, exCtxDone, fres, hist>>
    /\ UNCHANGED notFlow

\* case <-ctx.Done()
SelectCtxDone ==
    /\ fpc = "select"
    /\ ctxDone
    /\ fpc' = "done"
    /\ fres' = [tok |-> ZeroToken, dev |-> deviceResp, err |-> ctxErr]
    /\ hist' = [hist EXCEPT !.terminals = @ + 1]
    /\ UNCHANGED <<interval, ctxDone, now, deviceResp, period, nextTick, tickC,
                   deadline, timeoutC, exCtxDone>>
    /\ UNCHANGED notFlow

\* A timeout case that records its result and goes round the loop again
SelectTimeoutNoReturn ==
    /\ fpc = "select"
    /\ timeoutC
    /\ fpc' = "select"
    /\ fres' = [tok |-> ZeroToken, dev |-> deviceResp, err |-> <<"device code expired">>]
    /\ timeoutC' = FALSE
    /\ hist' = [hist EXCEPT !.terminals = @ + 1]
    /\ UNCHANGED <<interval, ctxDone, now, deviceResp, period, nextTick, tickC,
                   deadline, exCtxDone>>
    /\ UNCHANGED notFlow

\* case <-timeout
SelectTimeout ==
    /\ fpc = "select"
    /\ timeoutC
    /\ fpc' = "done"
    /\ fres' = [tok |-> ZeroToken, dev |-> deviceResp, err |-> <<"device code expired">>]
    /\ timeoutC' = FALSE
    /\ hist' = [hist EXCEPT !.terminals = @ + 1]
    /\ UNCHANGED <<interval, ctxDone, now, deviceResp, period, nextTick, tickC,
                   deadline, exCtxDone>>
    /\ UNCHANGED notFlow

\* A loop that starts an exchange without waiting for ticker.C
SelectTickerNoWait ==
    /\ fpc = "select"
    /\ tickC' = FALSE
    /\ fpc' = "exchange"
    /\ exCtxDone' = ctxDone
    /\ hist' = [hist EXCEPT !.exchanges = @ + 1,
                            !.afterDeadline = IF now >= deadline THEN @ + 1 ELSE @,
                            !.afterCancel = IF ctxDone THEN @ + 1 ELSE @,
                            !.exCodes = @ \cup {deviceResp.DeviceCode}]
    /\ UNCHANGED <<interval, ctxDone, now, deviceResp, period, nextTick,
                   deadline, timeoutC, fres>>
    /\ UNCHANGED notFlow

\* case <-ticker.C: the exchange call begins.
SelectTicker ==
    /\ fpc = "select"
    /\ tickC
    /\ tickC' = FALSE
    /\ fpc' = "exchange"
    /\ exCtxDone' = ctxDone
    /\ hist' = [hist EXCEPT !.exchanges = @ + 1,
                            !.afterDeadline = IF now >= deadline THEN @ + 1 ELSE @,
                            !.afterCancel = IF ctxDone THEN @ + 1 ELSE @,
                            !.exCodes = @ \cup {deviceResp.DeviceCode}]
    /\ UNCHANGED <<interval, ctxDone, now, deviceResp, period, nextTick,
                   deadline, timeoutC, fres>>
    /\ UNCHANGED notFlow

\* The answers the exchange in flight can get: the cancellation error when
\* its context was done from the start, any answer otherwise, the
\* cancellation error among them once the context is done.
PossibleAnswers ==
    IF exCtxDone THEN {CancelledResponse}
    ELSE IF ctxDone THEN ExchangeResponses \cup {CancelledResponse}
    ELSE ExchangeResponses

\* ExchangeDeviceCode returns on the answer resp, and the loop handles it.
\* ticker.Reset leaves a tick already waiting in ticker.C in place or drops
\* it, depending on the Go release (keep).
ExchangeReturn(resp, keep) ==
    /\ fpc = "exchange"
    /\ resp \in PossibleAnswers
    /\ LET e == ExchangeDeviceCode(resp).err
           slowed == e # NoErr /\ ~IsPending(e) /\ IsSlowDown(e)
           ended == e = NoErr \/ (~IsPending(e) /\ ~IsSlowDown(e))
       IN  hist' = [hist EXCEPT
                      !.lastKind = ServerKind(resp),
                      !.returned = @ + 1,
                      !.lastAnswer = [AccessToken  |-> resp.access_token,
                                      RefreshToken |-> resp.refresh_token,
                                      ExpiresIn    |-> resp.expires_in],
                      !.terminals = IF ended THEN @ + 1 ELSE @,
                      !.slowDowns = IF slowed THEN @ + 1 ELSE @,
                      !.before = IF slowed THEN period ELSE @,
                      !.after = IF slowed THEN SlowDownPeriod(interval, period) ELSE @]
    /\ LET r == ExchangeDeviceCode(resp)
       IN  IF r.err # NoErr
           THEN IF IsPending(r.err)
                THEN /\ fpc' = "select"
                     /\ keep
                     /\ UNCHANGED <<period, nextTick, tickC, fres>>
                ELSE IF IsSlowDown(r.err)
                THEN /\ fpc' = "select"
                     /\ period' = SlowDownPeriod(interval, period)
                     /\ nextTick' = now + SlowDownPeriod(interval, period)
                     /\ tickC' = (tickC /\ keep)
                     /\ UNCHANGED fres
                ELSE /\ fpc' = "done"
                     /\ keep
                     /\ fres' = [tok |-> ZeroToken, dev |-> deviceResp, err |-> r.err]
                     /\ UNCHANGED <<period, nextTick, tickC>>
           ELSE /\ fpc' = "done"
                /\ keep
                /\ fres' = [tok |-> r.tok, dev |-> deviceResp, err |-> NoErr]
                /\ UNCHANGED <<period, nextTick, tickC>>
    /\ UNCHANGED <<interval, ctxDone, now, deviceResp, deadline, timeoutC, exCtxDone>>
    /\ UNCHANGED notFlow

\* The caller of examples/oauth: once the flow has returned without error it
\* prints the verification address and the user code.
Display ==
    /\ fpc = "done"
    /\ fres.err = NoErr
    /\ ~hist.displayed
    /\ hist' = [hist EXCEPT !.displayed = TRUE]
    /\ UNCHANGED <<fpc, interval, ctxDone, now, deviceResp, period, nextTick,
                   tickC, deadline, timeoutC, exCtxDone, fres>>
    /\ UNCHANGED notFlow

\* Before the call: some interval argument, a live context.
FlowInit ==
    /\ fpc = "start"
    /\ interval \in 0..MaxInterval
    /\ ctxDone = FALSE
    /\ now = 0
    /\ deviceResp = ZeroDeviceResp
    /\ period = 0
    /\ nextTick = 0
    /\ tickC = FALSE
    /\ deadline = 0
    /\ timeoutC = FALSE
    /\ exCtxDone = FALSE
    /\ fres = [tok |-> ZeroToken, dev |-> ZeroDeviceResp, err |-> NoErr]
    /\ hist = HistInit

GetCode == \E resp \in DeviceCodeResponses : GetCodeReturn(resp)

Exchanged ==
    \E resp \in ExchangeResponses \cup {CancelledResponse}, keep \in BOOLEAN :
        ExchangeReturn(resp, keep)

FlowNext ==
    \/ FlowStart
    \/ GetCode
    \/ Tick
    \/ Cancel
    \/ SelectCtxDone
    \/ SelectTimeout
    \/ SelectTicker
    \/ Exchanged
    \/ Display

(***************************************************************************)
(* A client of the provider: RefreshToken, ValidateToken, GetDeviceCode     *)
(***************************************************************************)

\* Answers of the token endpoint to a refresh: the transport failed, an
\* error status, a 200 whose body is not JSON, and a 200 with a token object
\* that carries refresh_token (has_refresh, possibly as "") or omits it.
RefreshResponses ==
    {[net |-> FALSE, status |-> 0, json |-> FALSE, access_token |-> <<>>,
      has_refresh |-> FALSE, refresh_token |-> <<>>, expires_in |-> 0],
     [net |-> TRUE, status |-> 400, json |-> TRUE, access_token |-> <<>>,
      has_refresh |-> FALSE, refresh_token |-> <<>>, expires_in |-> 0],
     [net |-> TRUE, status |-> 200, json |-> FALSE, access_token |-> <<>>,
      has_refresh |-> FALSE, refresh_token |-> <<>>, expires_in |-> 0]}
    \cup
    {[net |-> TRUE, status |-> 200, json |-> TRUE, access_token |-> a,
      has_refresh |-> h[1], refresh_token |-> h[2], expires_in |-> 3600] :
        a \in {<<"at-2">>, <<"at-3">>},
        h \in {<<FALSE, <<>>>>, <<TRUE, <<>>>>, <<TRUE, <<"rt-2">>>>}}

\* A refresh that returns the decoded refresh token as it is
RefreshTokenNoKeep(refreshToken, resp) ==
    IF ~resp.net
    THEN [tok |-> ZeroToken,
          err |-> <<"failed to send request: ", "Post \"",
                    "https://oauth2.googleapis.com/token", "\": ",
                    "dial tcp: connection refused">>]
    ELSE IF resp.status # 200
    THEN [tok |-> ZeroToken,
          err |-> <<"token refresh failed: ", "status", " - ", "body">>]
    ELSE IF ~resp.json
    THEN [tok |-> ZeroToken, err |-> <<"failed to parse response: ", "json">>]
    ELSE [tok |-> [AccessToken  |-> resp.access_token,
                   RefreshToken |-> IF resp.has_refresh THEN resp.refresh_token
                                    ELSE <<>>,
                   ExpiresIn    |-> resp.expires_in],
          err |-> NoErr]

\* GoogleOAuth2Provider.RefreshToken(ctx, refreshToken) on the answer resp.
\* The decoder leaves result.RefreshToken "" when the member is missing.
RefreshToken(refreshToken, resp) ==
    IF ~resp.net
    THEN [tok |-> ZeroToken,
          err |-> <<"failed to send request: ", "Post \"",
                    "https://oauth2.googleapis.com/token", "\": ",
                    "dial tcp: connection refused">>]
    ELSE IF resp.status # 200
    THEN [tok |-> ZeroToken,
          err |-> <<"token refresh failed: ", "status", " - ", "body">>]
    ELSE IF ~resp.json
    THEN [tok |-> ZeroToken, err |-> <<"failed to parse response: ", "json">>]
    ELSE LET decoded == IF resp.has_refresh THEN resp.refresh_token ELSE <<>>
         IN  [tok |-> [AccessToken  |-> resp.access_token,
                       RefreshToken |-> IF decoded = <<>> THEN refreshToken
                                        ELSE decoded,
                       ExpiresIn    |-> resp.expires_in],
              err |-> NoErr]

\* The client refreshes with the refresh token it holds and keeps the
\* token the provider returned.
ClientRefresh(resp) ==
    /\ pcall' = [fn |-> "RefreshToken", arg |-> held.RefreshToken,
                 answer |-> resp, result |-> RefreshToken(held.RefreshToken, resp)]
    /\ held' = IF RefreshToken(held.RefreshToken, resp).err = NoErr
               THEN RefreshToken(held.RefreshToken, resp).tok
               ELSE held
    /\ UNCHANGED notProvider

\* The client asks whether the token tok is valid.
ClientValidate(tok, resp) ==
    /\ pcall' = [fn |-> "ValidateToken", arg |-> tok, answer |-> resp,
                 result |-> ValidateToken(tok, resp)]
    /\ UNCHANGED held
    /\ UNCHANGED notProvider

\* The client asks for a device code.
ClientGetDeviceCode(resp) ==
    /\ pcall' = [fn |-> "GetDeviceCode", arg |-> <<>>, answer |-> resp,
                 result |-> GetDeviceCode(resp)]
    /\ UNCHANGED held
    /\ UNCHANGED notProvider

\* A client holding a token, with or without a refresh token, before its
\* first call.
ProviderInit ==
    /\ held \in {[AccessToken |-> <<"at-1">>, RefreshToken |-> rt, ExpiresIn |-> 3600] :
                    rt \in {<<"rt-1">>, <<>>}}
    /\ pcall = [fn |-> "none", arg |-> <<>>, answer |-> <<>>, result |-> <<>>]

Refreshed == \E resp \in RefreshResponses : ClientRefresh(resp)

Introspected ==
    \E tok \in {held.AccessToken, bad, <<>>}, resp \in TokenInfoResponses :
        ClientValidate(tok, resp)

DeviceCodeAsked == \E resp \in DeviceCodeResponses : ClientGetDeviceCode(resp)

ProviderNext == Refreshed \/ Introspected \/ DeviceCodeAsked

(***************************************************************************)
(* MCPServer.Start and MCPServer.Stop                                      *)
(***************************************************************************)

\* Requests that reach the listener while it is followed.
MaxServed == 2

\* An MCPServer built by New for the SSE or the HTTP transport, with or
\* without a bearer validator.  Its record:
\*   mode, auth  m.transportMode, m.bearerTokenValidator != nil
\*   start       Start: "idle", "returned"
\*   gor         the goroutine of Start: "none", "spawned" (running, nothing
\*               done yet), "created" (m.sseServer / m.httpServer assigned),
\*               "serving" (inside ListenAndServe), "returning"
\*               (ListenAndServe has returned), "exited" (wg.Done ran)
\*   closed      Shutdown reached the transport before it was started and
\*               the transport remembers it
\*   stop        Stop: "idle", "cancelled", "waiting", "returned", "panic"
\*   served      requests the listener served
\*   afterStop   those it served after Stop had returned
ServerInit ==
    srv \in {[mode |-> m, auth |-> a, start |-> "idle", gor |-> "none",
              closed |-> FALSE, stop |-> "idle", served |-> 0, afterStop |-> 0] :
                m \in {"sse", "http"}, a \in BOOLEAN}

\* Start in SSE or HTTP mode: wg.Add(1), go func(), return nil.
ServerStart ==
    /\ srv.start = "idle"
    /\ srv' = [srv EXCEPT !.start = "returned", !.gor = "spawned"]
    /\ UNCHANGED notServer

\* The goroutine: m.sseServer = server.NewSSEServer(m.srv), or
\* m.httpServer = server.NewStreamableHTTPServer(m.srv).
GoCreate ==
    /\ srv.gor = "spawned"
    /\ srv' = [srv EXCEPT !.gor = "created"]
    /\ UNCHANGED notServer

\* The goroutine enters ListenAndServe: of the http.Server local to
\* startHTTPServerWithHandler when a validator is configured, of the
\* transport (m.sseServer.Start, m.httpServer.Start) otherwise.  With
\* listens = FALSE it returns at once: the address cannot be listened on,
\* or the transport was shut down before.
GoListen(listens) ==
    /\ srv.gor = "created"
    /\ (~srv.auth /\ srv.closed) => ~listens
    /\ srv' = [srv EXCEPT !.gor = IF listens THEN "serving" ELSE "returning"]
    /\ UNCHANGED notServer

\* The goroutine leaves its function: defer m.wg.Done().
GoExit ==
    /\ srv.gor = "returning"
    /\ srv' = [srv EXCEPT !.gor = "exited"]
    /\ UNCHANGED notServer

\* The listener serves a request.
Serve ==
    /\ srv.gor = "serving"
    /\ srv.served < MaxServed
    /\ srv' = [srv EXCEPT !.served = @ + 1,
                          !.afterStop = IF srv.stop = "returned" THEN @ + 1 ELSE @]
    /\ UNCHANGED notServer

\* Stop is called after Start returned: m.cancel().
StopBegin ==
    /\ srv.start = "returned"
    /\ srv.stop = "idle"
    /\ srv' = [srv EXCEPT !.stop = "cancelled"]
    /\ UNCHANGED notServer

\* Stop reads m.sseServer / m.httpServer, unsynchronised with the goroutine
\* that assigns it, and calls transport.Shutdown(ctx).  Read before the
\* assignment the field is a nil pointer inside a non-nil interface:
\* Shutdown runs on a nil receiver and panics or returns (nilPanics).  The
\* transport that is serving stops listening; one that was not started yet
\* remembers the shutdown or not (remembers); one that is never started,
\* because the validator's handler is served by the http.Server of
\* startHTTPServerWithHandler, has nothing to shut down.
StopShutdown(nilPanics, remembers) ==
    /\ srv.stop = "cancelled"
    /\ IF srv.gor \in {"none", "spawned"}
       THEN srv' = [srv EXCEPT !.stop = IF nilPanics THEN "panic" ELSE "waiting"]
       ELSE IF srv.auth
       THEN srv' = [srv EXCEPT !.stop = "waiting"]
       ELSE IF srv.gor = "serving"
       THEN srv' = [srv EXCEPT !.stop = "waiting", !.gor = "returning"]
       ELSE IF srv.gor = "created"
       THEN srv' = [srv EXCEPT !.stop = "waiting", !.closed = remembers]
       ELSE srv' = [srv EXCEPT !.stop = "waiting"]
    /\ UNCHANGED notServer

\* case <-waitCh: the goroutine has exited.
StopWaited ==
    /\ srv.stop = "waiting"
    /\ srv.gor = "exited"
    /\ srv' = [srv EXCEPT !.stop = "returned"]
    /\ UNCHANGED notServer

\* case <-time.After(1 * time.Second): a second passes only while the
\* goroutine is blocked inside ListenAndServe.
StopTimedOut ==
    /\ srv.stop = "waiting"
    /\ srv.gor = "serving"
    /\ srv' = [srv EXCEPT !.stop = "returned"]
    /\ UNCHANGED notServer

Listening == \E listens \in BOOLEAN : GoListen(listens)

ShuttingDown == \E nilPanics, remembers \in BOOLEAN : StopShutdown(nilPanics, remembers)

ServerNext ==
    \/ ServerStart
    \/ GoCreate
    \/ Listening
    \/ GoExit
    \/ Serve
    \/ StopBegin
    \/ ShuttingDown
    \/ StopWaited
    \/ StopTimedOut

(***************************************************************************)
(* Tool-handler middleware: withBearerTokenAuth                            *)
(***************************************************************************)

\* Tool calls followed.
MaxToolCalls == 2

\* The tokens callers of a tool present.
CallerTokens == {good, bad, <<>>}

\* No tool call yet.
ToolInit == toolCalls = <<>>

\* The handler withBearerTokenAuth returns, on a tool call whose caller
\* presented callerToken: the validator is called with "", the call is
\* answered with the validator's error or handed to next with the context
\* enriched by the validator's map.
ToolCall(callerToken, vt, ui) ==
    /\ Len(toolCalls) < MaxToolCalls
    /\ LET out == CallValidator(validator, <<>>, vt, ui)
       IN  IF out.err # NoErr
           THEN toolCalls' = Append(toolCalls,
                    [caller |-> callerToken, passed |-> <<>>, err |-> out.err,
                     next |-> FALSE, ctx |-> Background])
           ELSE \E order \in Orders(out.ctx) :
                    toolCalls' = Append(toolCalls,
                        [caller |-> callerToken, passed |-> <<>>, err |-> NoErr,
                         next |-> TRUE,
                         ctx |-> EnrichedContext(Background, out.ctx, order)])
    /\ UNCHANGED notTool

ToolCalled ==
    \E t \in CallerTokens, vt \in TokenInfoResponses, ui \in UserInfoResponses :
        ToolCall(t, vt, ui)

ToolNext == ToolCalled

(***************************************************************************)
(* Specifications                                                          *)
(***************************************************************************)


\* One client and one server that take no step.
ProviderIdle == ProviderInit /\ held.RefreshToken # <<>>
ServerIdle == ServerInit /\ srv.mode = "http" /\ srv.auth

\* The gateway serving requests, beside a flow that is never started.
GatewayOnly ==
    GatewayInit /\ FlowInit /\ interval = 0 /\ ProviderIdle /\ ServerIdle /\ ToolInit

GatewaySpec == GatewayOnly /\ [][GatewayNext]_vars

\* The gateway serving its requests concurrently.
ConcurrentOnly ==
    GatewayInit /\ FlowInit /\ interval = 0 /\ ProviderIdle /\ ServerIdle /\ ToolInit

ConcurrentSpec == ConcurrentOnly /\ [][ConcurrentNext]_vars

\* One invocation of the device flow, beside a gateway no request reaches.
FlowOnly ==
    FlowInit /\ GatewayInit /\ validator.kind = "google" /\ ProviderIdle /\ ServerIdle /\ ToolInit

FlowSpec == FlowOnly /\ [][FlowNext]_vars

\* The flow when every provider call returns, time passes, the goroutine
\* runs whenever a case of its select is ready, and the select, which
\* chooses among its ready cases at random, does not pass over the timeout
\* case for ever.
FairFlowSpec ==
    /\ FlowOnly
    /\ [][FlowNext]_vars
    /\ WF_vars(GetCode)
    /\ WF_vars(Exchanged)
    /\ WF_vars(Tick)
    /\ WF_vars(SelectCtxDone \/ SelectTimeout \/ SelectTicker)
    /\ SF_vars(SelectTimeout)

\* A client calling the provider's methods, beside a gateway without
\* requests and a flow that is never started.
ProviderOnly ==
    ProviderInit /\ GatewayInit /\ validator.kind = "google" /\ FlowInit
    /\ interval = 0 /\ ServerIdle /\ ToolInit

ProviderSpec == ProviderOnly /\ [][ProviderNext]_vars

\* A server that is started and stopped, beside the other components at
\* rest.
ServerOnly ==
    ServerInit /\ GatewayInit /\ validator.kind = "google" /\ FlowInit
    /\ interval = 0 /\ ProviderIdle /\ ToolInit

ServerSpec == ServerOnly /\ [][ServerNext]_vars

\* Tool calls passing through withBearerTokenAuth, beside the other
\* components at rest.
ToolOnly ==
    ToolInit /\ GatewayInit /\ FlowInit /\ interval = 0 /\ ProviderIdle
    /\ ServerIdle

ToolSpec == ToolOnly /\ [][ToolNext]_vars

(***************************************************************************)
(* Properties of the bearer gateway, stated for GatewaySpec                 *)
(***************************************************************************)

\* How the gateway answered request r, told from what it wrote.
Forwarded(r) == handlerCalls[r] # <<>>
MissingCredential(r) ==
    status[r] = 401 /\ body[r] = <<"Authorization required">>
MalformedCredential(r) ==
    /\ status[r] = 401
    /\ body[r] = <<"Invalid Authorization format - expected Bearer token">>
InvalidCredential(r) ==
    status[r] = 401 /\ body[r] = <<"Invalid token">>

\* h begins with the seven characters B e a r e r and one space.
BeginsBearerSpace(h) ==
    /\ Len(h) >= 7
    /\ h[1] = "B" /\ h[2] = "e" /\ h[3] = "a" /\ h[4] = "r"
    /\ h[5] = "e" /\ h[6] = "r" /\ h[7] = " "

\* C1: the downstream handler is invoked only after the validator was
\* called for that request and returned without error; a request whose
\* validator was not called, has not returned, or returned an error has
\* no handler invocation.
C1_HandlerOnlyAfterValidation ==
    \A r \in ReqIds :
        Forwarded(r) =>
            /\ Len(validatorCalls[r]) = 1
            /\ Len(outcome[r]) = 1
            /\ outcome[r][1].err = NoErr
            /\ Len(handlerCalls[r]) = 1
            /\ status[r] = 0

C1_Witness ==
    \E r \in ReqIds :
        /\ gpc[r] = "done"
        /\ Forwarded(r)
        /\ outcome[r] # <<>> /\ outcome[r][1].err = NoErr

\* C2: with the validator that accepts exactly "good", "Bearer good" reaches
\* the handler with the validator's AuthContext and "Bearer bad" is rejected
\* as InvalidCredential without the handler; for every header
\* "Bearer " + pad + t + pad the validator is asked about t, and the request
\* is forwarded exactly when the validator returned no error.
C2_DecisionIsValidatorsVerdict ==
    \A r \in ReqIds :
        gpc[r] = "done" =>
            /\ (validator = [kind |-> "expected", expectedToken |-> good]
                /\ authHeader[r] = prefix \o good)
               => /\ Len(handlerCalls[r]) = 1
                  /\ Value(handlerCalls[r][1], "authenticated") = {<<"true">>}
                  /\ Value(handlerCalls[r][1], "token") = {good}
                  /\ status[r] = 0
            /\ (validator = [kind |-> "expected", expectedToken |-> good]
                /\ authHeader[r] = prefix \o bad)
               => /\ InvalidCredential(r)
                  /\ ~Forwarded(r)
            /\ \A l \in Pads, t \in TokenTexts, p \in Pads :
                 authHeader[r] = prefix \o l \o t \o p =>
                    /\ validatorCalls[r] = <<t>>
                    /\ Len(outcome[r]) = 1
                    /\ Forwarded(r) <=> outcome[r][1].err = NoErr
                    /\ ~Forwarded(r) <=> InvalidCredential(r)
                    /\ validator.kind = "expected" =>
                         (Forwarded(r) <=> t = validator.expectedToken)

C2_Witness ==
    \E r \in ReqIds :
        /\ gpc[r] = "done"
        /\ validator = [kind |-> "expected", expectedToken |-> good]
        /\ authHeader[r] = prefix \o good \o <<" ">>
        /\ Forwarded(r)

\* C3: a request without Authorization header is rejected as
\* MissingCredential, one whose value does not begin with "Bearer " as
\* MalformedCredential; neither the validator nor the handler is invoked.
C3_MissingAndMalformed ==
    \A r \in ReqIds :
        gpc[r] # "idle" =>
            /\ authHeader[r] = <<>> =>
                 /\ gpc[r] = "done"
                 /\ MissingCredential(r)
                 /\ validatorCalls[r] = <<>> /\ ~Forwarded(r)
            /\ (authHeader[r] # <<>> /\ ~BeginsBearerSpace(authHeader[r])) =>
                 /\ gpc[r] = "done"
                 /\ MalformedCredential(r)
                 /\ validatorCalls[r] = <<>> /\ ~Forwarded(r)

C3_Witness ==
    \E r \in ReqIds :
        /\ gpc[r] = "done"
        /\ authHeader[r] = <<"b", "e", "a", "r", "e", "r", " ">> \o good
        /\ MalformedCredential(r)

\* C4 (the specification's statement, which the code violates): a header "Bearer " followed by nothing or only white
\* space is rejected as MalformedCredential and the validator is not invoked.
C4_EmptyTokenIsMalformed ==
    \A r \in ReqIds :
        (/\ gpc[r] # "idle"
         /\ BeginsBearerSpace(authHeader[r])
         /\ \A i \in 8..Len(authHeader[r]) : authHeader[r][i] \in WhiteSpace)
        => /\ validatorCalls[r] = <<>>
           /\ ~Forwarded(r)
           /\ gpc[r] = "done" /\ MalformedCredential(r)

\* C5 (the specification's statement, which the code violates): no message the gateway logs on a validation failure
\* contains the token of the request.
C5_LogNeverHoldsToken ==
    \A e \in log :
        (/\ HasPrefix(e.msg, <<"Bearer token validation failed: ">>)
         /\ token[e.req] # <<>>)
        => ~Contains(e.msg, token[e.req])

(***************************************************************************)
(* Properties of the device flow, stated for FlowSpec                       *)
(***************************************************************************)

\* The device code was issued and the polling loop was entered.
CodeIssued == fpc \in {"select", "exchange"} \/ (fpc = "done" /\ period > 0)

Expired == fpc = "done" /\ fres.err = <<"device code expired">>

\* C6 (the specification's statement, which the code violates): after a slow_down answer the ticker period is strictly
\* greater than it was before that answer.
C6_SlowDownRaisesInterval ==
    hist.lastKind = "slow_down" =>
        /\ hist.after > hist.before
        /\ fpc = "select" => period = hist.after

\* C7 (the specification's statement, which the code violates): once the deadline has elapsed at most one more exchange
\* call is started, and a flow whose exchange calls were all answered
\* pending or slow_down, and which nobody cancelled, ends with the timeout
\* error.
C7_ExpiryEndsFlow ==
    /\ hist.afterDeadline <= 1
    /\ (/\ fpc = "done" /\ CodeIssued /\ ~ctxDone
        /\ hist.lastKind \in {"none", "pending", "slow_down"})
       => Expired

\* C8 (the specification's statement, which the code violates): no exchange call is started once the context is
\* cancelled, and a flow cancelled before its deadline ends with the
\* context's own error.
C8_CancelEndsFlow ==
    /\ hist.afterCancel = 0
    /\ (fpc = "done" /\ CodeIssued /\ ctxDone /\ now < deadline)
       => fres.err = ctxErr

\* C9 (the specification's statement, which the code violates): after an answer that is a terminal result (an error code
\* other than authorization_pending and slow_down, a transport failure, a
\* body that is not JSON) the flow has returned an error.
C9_TerminalResultStops ==
    hist.lastKind \in {"terminal", "transport", "unparseable"} =>
        fpc = "done" /\ fres.err # NoErr

\* C10 (the specification's statement, which the code violates): a flow that returned without error returned a
\* non-empty access token.
C10_AccessTokenNonEmpty ==
    (fpc = "done" /\ fres.err = NoErr) => fres.tok.AccessToken # <<>>

\* C11 (the specification's statement, which the code violates): the
\* interval given to the ticker is positive, and is the interval the
\* device-code answer named whenever that answer named one.
C11_TimerStartsAtServerInterval ==
    hist.tickers > 0 =>
        /\ hist.tickerArg > 0
        /\ hist.serverInterval > 0 => hist.tickerArg = hist.serverInterval

\* C12 (the specification's statement, which the code violates): when the
\* polling of an issued device code has ended, the verification address and
\* the user code have already been shown to the user.
C12_DisplayBeforePollingEnds ==
    (fpc = "done" /\ CodeIssued) => hist.displayed

\* C13: an invocation returns at most once and has returned exactly when it
\* is over, with a result of exactly one kind; once it has returned, no
\* exchange call is started and nothing of the flow changes any more, also
\* when the deadline, the cancellation and a tick were ready together.
Succeeded == fpc = "done" /\ fres.err = NoErr
Cancelled == fpc = "done" /\ fres.err = ctxErr
Denied ==
    fpc = "done" /\ HasPrefix(fres.err, <<"token exchange failed: ", "access_denied">>)
Failed ==
    /\ fpc = "done"
    /\ fres.err \notin {NoErr, ctxErr, <<"device code expired">>}
    /\ ~Denied

C13_OneTerminalTransition ==
    /\ [](/\ hist.terminals <= 1
          /\ fpc = "done" <=> hist.terminals = 1
          /\ fpc = "done" =>
                /\ hist.returned = hist.exchanges
                /\ Cardinality({k \in {"s", "e", "d", "c", "f"} :
                       \/ k = "s" /\ Succeeded
                       \/ k = "e" /\ Expired
                       \/ k = "d" /\ Denied
                       \/ k = "c" /\ Cancelled
                       \/ k = "f" /\ Failed}) = 1)
    /\ [][fpc = "done" =>
            /\ UNCHANGED <<fpc, fres, deviceResp, period, nextTick, tickC,
                           timeoutC, ctxDone, now>>
            /\ hist'.exchanges = hist.exchanges
            /\ hist'.terminals = hist.terminals]_vars

C13_Witness ==
    /\ fpc = "done" /\ hist.terminals = 1
    /\ ctxDone /\ tickC /\ now >= deadline
    /\ hist.exchanges > 0

\* C14: when GetDeviceCode failed the flow has returned that error with
\* empty token and session, after one call of GetDeviceCode and no exchange
\* call; GetDeviceCode is never called twice.
C14_GetDeviceCodeFailureEndsFlow ==
    /\ hist.getCodes <= 1
    /\ hist.getCodeErr # NoErr =>
          /\ fpc = "done"
          /\ fres = [tok |-> ZeroToken, dev |-> ZeroDeviceResp,
                     err |-> hist.getCodeErr]
          /\ hist.getCodes = 1
          /\ hist.exchanges = 0
          /\ hist.tickers = 0

C14_Witness ==
    /\ fpc = "done"
    /\ hist.getCodeErr = <<"device code request failed: ", "status", " - ", "body">>
    /\ fres.err = hist.getCodeErr

\* C15: the error a flow returned is never the authorization_pending or the
\* slow_down error of an exchange call; a flow that ended right after such an
\* answer ended by expiry or cancellation.
C15_PendingNeverReturned ==
    fpc = "done" =>
        /\ fres.err \notin {<<"authorization_pending">>, <<"slow_down">>}
        /\ hist.lastKind \in {"pending", "slow_down"} =>
              fres.err \in {ctxErr, <<"device code expired">>}

C15_Witness ==
    /\ fpc = "done"
    /\ hist.lastKind = "slow_down"
    /\ hist.slowDowns > 0
    /\ ctxDone /\ now >= deadline

\* C16: a flow that succeeded returned the token of its last exchange
\* answer, field by field, together with the session exactly as
\* GetDeviceCode issued it; the session is never changed while the flow
\* polls, and every exchange call was given that session's device code.
C16_SuccessReturnsTokenAndSession ==
    /\ CodeIssued => deviceResp = hist.issued
    /\ hist.exCodes \subseteq {hist.issued.DeviceCode}
    /\ Succeeded =>
          /\ hist.lastKind = "success"
          /\ fres.tok = hist.lastAnswer
          /\ fres.dev = hist.issued
          /\ hist.exCodes = {hist.issued.DeviceCode}

C16_Witness ==
    /\ Succeeded
    /\ fres.tok.AccessToken = <<"at-1">> /\ fres.tok.RefreshToken = <<"rt-1">>
    /\ fres.dev.DeviceCode = <<"dc-1">> /\ fres.dev.UserCode = <<"ABCD-EFGH">>
    /\ fres.dev.ExpiresIn = MaxExpiresIn
    /\ hist.exchanges >= 2

C18_ExchangeGatedByTick ==
    /\ [](/\ hist.exchanges <= hist.ticksFired
          /\ hist.exchanges - hist.returned \in {0, 1}
          /\ fpc = "exchange" <=> hist.exchanges = hist.returned + 1)
    /\ [][hist'.exchanges # hist.exchanges =>
            /\ hist'.exchanges = hist.exchanges + 1
            /\ fpc = "select" /\ fpc' = "exchange"
            /\ tickC /\ ~tickC'
            /\ hist.returned = hist.exchanges]_vars

C18_Witness ==
    /\ fpc = "exchange"
    /\ hist.exchanges >= 2
    /\ hist.exchanges = hist.ticksFired
    /\ ~tickC

\* C19: a step in which an exchange call returns authorization_pending
\* leaves the flow in the select with the ticker as it was: same period
\* (also one a slow_down had set), same next tick, same waiting tick.
C19_PendingKeepsInterval ==
    [][(fpc = "exchange" /\ hist'.returned # hist.returned
        /\ hist'.lastKind = "pending") =>
          /\ fpc' = "select"
          /\ UNCHANGED <<period, nextTick, tickC, interval>>
          /\ hist'.slowDowns = hist.slowDowns]_vars

C19_Witness ==
    /\ hist.lastKind = "pending"
    /\ fpc = "select"
    /\ hist.slowDowns > 0
    /\ period = hist.after /\ period > interval

(***************************************************************************)
(* Context enrichment, stated for GatewaySpec                               *)
(***************************************************************************)

\* C20: a request whose validator returned without error reached the
\* downstream handler exactly once, and the context the handler got gives,
\* under every key of the validator's AuthContext, the value the AuthContext
\* has for it.
C20_AuthContextReachesHandler ==
    \A r \in ReqIds :
        (gpc[r] = "done" /\ outcome[r] # <<>> /\ outcome[r][1].err = NoErr) =>
            /\ Len(handlerCalls[r]) = 1
            /\ \A key \in DOMAIN outcome[r][1].ctx :
                 Value(handlerCalls[r][1], key) = {outcome[r][1].ctx[key]}

C20_Witness ==
    \E r \in ReqIds :
        /\ gpc[r] = "done"
        /\ validator.kind = "google"
        /\ outcome[r] # <<>> /\ outcome[r][1].err = NoErr
        /\ DOMAIN outcome[r][1].ctx = {"email", "id"}
        /\ Len(handlerCalls[r]) = 1
        /\ handlerCalls[r][1][1][1] = "id"

(***************************************************************************)
(* Failure paths of the gateway, stated for GatewaySpec                     *)
(***************************************************************************)

\* C21: a request the gateway has answered without forwarding it was
\* answered 401, whether its credential was missing, malformed or invalid,
\* and exactly one of the three rejections applies; the validator is called
\* at most once per request and answers at most once.
C21_FailuresAreUnauthorized ==
    \A r \in ReqIds :
        /\ Len(validatorCalls[r]) <= 1
        /\ Len(outcome[r]) <= Len(validatorCalls[r])
        /\ (gpc[r] = "done" /\ ~Forwarded(r)) =>
              /\ status[r] = 401
              /\ MissingCredential(r) \/ MalformedCredential(r) \/ InvalidCredential(r)
              /\ InvalidCredential(r) <=> Len(validatorCalls[r]) = 1

C21_Witness ==
    \E r \in ReqIds :
        /\ gpc[r] = "done"
        /\ InvalidCredential(r)
        /\ validatorCalls[r] = <<bad>>
        /\ status[r] = 401

(***************************************************************************)
(* Isolation of concurrent requests, stated for ConcurrentSpec              *)
(***************************************************************************)

\* The keys under which the context ctx holds a value.
Keys(ctx) == {ctx[i][1] : i \in 1..Len(ctx)}

\* C22: whatever the other requests do, the validator was asked about the
\* token of the request's own header and the context its handler got holds
\* exactly the AuthContext the validator returned for it (for the
\* expected-token validator: the request's own token); a step of one
\* request changes nothing that belongs to another request, and nothing
\* changes the middleware's validator.
C22_RequestsAreIsolated ==
    /\ [](\A r \in ReqIds :
            /\ gpc[r] = "validating" =>
                  /\ token[r] = ExtractToken(authHeader[r])
                  /\ validatorCalls[r] = <<token[r]>>
            /\ Forwarded(r) =>
                  /\ Len(handlerCalls[r]) = 1 /\ Len(outcome[r]) = 1
                  /\ outcome[r][1].err = NoErr
                  /\ validatorCalls[r] = <<ExtractToken(authHeader[r])>>
                  /\ Keys(handlerCalls[r][1]) = DOMAIN outcome[r][1].ctx
                  /\ \A key \in DOMAIN outcome[r][1].ctx :
                       Value(handlerCalls[r][1], key) = {outcome[r][1].ctx[key]}
                  /\ validator.kind = "expected" =>
                       /\ ExtractToken(authHeader[r]) = validator.expectedToken
                       /\ Value(handlerCalls[r][1], "token") =
                            {ExtractToken(authHeader[r])})
    /\ [][/\ validator' = validator
          /\ \E r \in ReqIds : \A q \in ReqIds \ {r} :
                /\ gpc'[q] = gpc[q] /\ authHeader'[q] = authHeader[q]
                /\ token'[q] = token[q] /\ validatorCalls'[q] = validatorCalls[q]
                /\ outcome'[q] = outcome[q] /\ handlerCalls'[q] = handlerCalls[q]
                /\ status'[q] = status[q] /\ body'[q] = body[q]
                /\ providerCalls'[q] = providerCalls[q]
                /\ {e \in log' : e.req = q} = {e \in log : e.req = q}]_vars

C22_Witness ==
    /\ validator = [kind |-> "expected", expectedToken |-> good]
    /\ gpc[1] = "done" /\ Forwarded(1) /\ token[1] = good
    /\ gpc[2] = "validating" /\ token[2] = bad

(***************************************************************************)
(* The provider-derived validator in the gateway, stated for GatewaySpec    *)
(***************************************************************************)

\* The provider call fn of request r ended in a transport failure.
TransportFailed(r, fn) ==
    \E i \in 1..Len(providerCalls[r]) :
        providerCalls[r][i].fn = fn /\ ~providerCalls[r][i].answer.net

\* C23 (the specification's statement, which the code violates): a request
\* whose validator made a provider call that ended in a transport failure,
\* be it ValidateToken or GetUserInfo, was rejected as unauthorized and did
\* not reach the handler.
C23_TransportFailureRejects ==
    \A r \in ReqIds :
        (/\ gpc[r] = "done"
         /\ TransportFailed(r, "ValidateToken") \/ TransportFailed(r, "GetUserInfo"))
        => InvalidCredential(r) /\ ~Forwarded(r)

(***************************************************************************)
(* Properties of the provider's methods, stated for ProviderSpec            *)
(***************************************************************************)

\* C24: a refresh answered 200 with a token object returns no error, the
\* answer's access token, and as refresh token the answer's when the answer
\* carries a non-empty one, else the refresh token passed in.
C24_RefreshKeepsRefreshToken ==
    (/\ pcall.fn = "RefreshToken"
     /\ pcall.answer.net /\ pcall.answer.status = 200 /\ pcall.answer.json)
    => /\ pcall.result.err = NoErr
       /\ pcall.result.tok.AccessToken = pcall.answer.access_token
       /\ pcall.result.tok.RefreshToken =
            IF pcall.answer.has_refresh /\ pcall.answer.refresh_token # <<>>
            THEN pcall.answer.refresh_token
            ELSE pcall.arg
       /\ held = pcall.result.tok

C24_Witness ==
    /\ pcall.fn = "RefreshToken"
    /\ pcall.arg = <<"rt-1">>
    /\ pcall.answer.status = 200 /\ pcall.answer.json /\ ~pcall.answer.has_refresh
    /\ pcall.result.tok.RefreshToken = <<"rt-1">>
    /\ pcall.result.tok.AccessToken = <<"at-2">>

\* C25: ValidateToken returns true exactly when the endpoint answered with
\* status 200, returns an error exactly when the request failed in the
\* transport, and returns (false, nil) for every other status.
C25_ValidIffStatus200 ==
    pcall.fn = "ValidateToken" =>
        /\ pcall.result.valid <=> (pcall.answer.net /\ pcall.answer.status = 200)
        /\ pcall.result.err # NoErr <=> ~pcall.answer.net
        /\ (pcall.answer.net /\ pcall.answer.status # 200) =>
              pcall.result = [valid |-> FALSE, err |-> NoErr]

C25_Witness ==
    /\ pcall.fn = "ValidateToken"
    /\ pcall.answer.net /\ pcall.answer.status = 204
    /\ pcall.result = [valid |-> FALSE, err |-> NoErr]

\* C26 (the specification's statement, which the code violates): the
\* session GetDeviceCode returns for a 200 answer has the verification
\* address the answer names, under verification_uri or verification_url,
\* and the answer's device_code, user_code, expires_in and interval.
C26_DeviceCodeFieldsCarried ==
    (/\ pcall.fn = "GetDeviceCode"
     /\ pcall.answer.net /\ pcall.answer.status = 200 /\ pcall.answer.json)
    => /\ pcall.result.err = NoErr
       /\ pcall.result.dev.DeviceCode = pcall.answer.device_code
       /\ pcall.result.dev.UserCode = pcall.answer.user_code
       /\ pcall.result.dev.ExpiresIn = pcall.answer.expires_in
       /\ pcall.result.dev.VerificationURI =
            IF pcall.answer.verification_uri # <<>>
            THEN pcall.answer.verification_uri
            ELSE pcall.answer.verification_url
       /\ "Interval" \in DOMAIN pcall.result.dev
       /\ pcall.result.dev.Interval = pcall.answer.interval

(***************************************************************************)
(* Shutdown of the server, stated for ServerSpec                            *)
(***************************************************************************)

\* C27 (the specification's statement, which the code violates): when Stop
\* has returned, the goroutine of Start has exited and the listener serves
\* no request any more.
C27_StopShutsDown ==
    srv.stop = "returned" =>
        /\ srv.gor = "exited"
        /\ srv.afterStop = 0

(***************************************************************************)
(* The tool-handler middleware, stated for ToolSpec                         *)
(***************************************************************************)

\* C28 (the specification's statement, which the code violates): in every
\* tool call the token given to the validator is the token the caller
\* presented, and next is called exactly when the validator accepted it
\* (for the expected-token validator: when the caller's token is the
\* expected one).
C28_ToolAuthUsesCallersToken ==
    \A i \in 1..Len(toolCalls) :
        /\ toolCalls[i].passed = toolCalls[i].caller
        /\ toolCalls[i].next <=> toolCalls[i].err = NoErr
        /\ validator.kind = "expected" =>
              (toolCalls[i].next <=> toolCalls[i].caller = validator.expectedToken)

(***************************************************************************)
(* Termination of the device flow, stated for FairFlowSpec                  *)
(***************************************************************************)

\* C29: an invocation with a positive interval whose GetDeviceCode call is
\* in flight eventually returns, whatever the token endpoint answers and
\* whether or not the caller cancels.
C29_FlowTerminates ==
    (fpc = "getcode" /\ interval > 0) ~> (fpc = "done")

C29_Witness ==
    /\ Expired
    /\ ~ctxDone
    /\ hist.exchanges >= 2
    /\ hist.lastKind \in {"pending", "slow_down"}
    /\ hist.returned = hist.exchanges

(***************************************************************************)
(* The provider-derived validator, stated for GatewaySpec                   *)
(***************************************************************************)

\* C30: the provider-derived validator answers without error exactly when
\* ValidateToken returned (true, nil) for the token; then GetUserInfo was
\* called and the AuthContext is its map, or exactly {authenticated: true}
\* when it failed; otherwise the validator returned an error and no map,
\* and GetUserInfo was not called.
C30_ValidatorFollowsValidateToken ==
    \A r \in ReqIds :
        (gpc[r] = "done" /\ validator.kind = "google" /\ outcome[r] # <<>>) =>
            LET out == outcome[r][1]
                calls == providerCalls[r]
                v == ValidateToken(token[r], calls[1].answer)
            IN  /\ calls # <<>> /\ calls[1].fn = "ValidateToken"
                /\ out.err = NoErr <=> (v.valid /\ v.err = NoErr)
                /\ out.err = NoErr =>
                      /\ Len(calls) = 2 /\ calls[2].fn = "GetUserInfo"
                      /\ LET u == GetUserInfo(token[r], calls[2].answer)
                         IN  out.ctx = IF u.err = NoErr THEN u.info
                                       ELSE [authenticated |-> <<"true">>]
                /\ out.err # NoErr =>
                      /\ Len(calls) = 1
                      /\ out.ctx = NilMap
                      /\ v.err # NoErr =>
                            out.err = <<"failed to validate token: ">> \o v.err
                      /\ v.err = NoErr => out.err = <<"invalid token">>

C30_Witness ==
    \E r \in ReqIds :
        /\ gpc[r] = "done" /\ validator.kind = "google"
        /\ outcome[r] # <<>> /\ outcome[r][1].err = NoErr
        /\ outcome[r][1].ctx = [authenticated |-> <<"true">>]
        /\ Len(providerCalls[r]) = 2
        /\ providerCalls[r][2].answer.status = 401

====
